---- MODULE Spec2Model ----
(***************************************************************************)
(* Model of the taskkit workflow engine of erauner/homelab-task-go:        *)
(*   - WorkflowDefinition.GetExecutionOrder / GetRetries / GetHandlerName  *)
(*   - LocalRunner.Run / executeStep                                       *)
(*   - the handler registry: Register, Get, ListHandlers, HandlerCount     *)
(*     under the lock registryLock, called by concurrent goroutines        *)
(* Step handlers are the environment: every invocation returns an outcome  *)
(* drawn from a small set (error message or not, skip directive or not,    *)
(* a set of context keys it asks to update).  Under Spec the handlers      *)
(* change the shared context only through the ContextUpdates they return;  *)
(* under SpecLive a handler may also write to the Vars map of the          *)
(* StepInput it is handed, which is the map r.vars itself.                 *)
(* The workdir is part of the state: what NewLocalRunner finds as vars.yaml *)
(* (SpecSnapshot starts runs from a missing or broken one), and what       *)
(* saveResult and saveVars leave there, each write failing or not.         *)
(***************************************************************************)
EXTENDS Integers, Sequences, FiniteSets, TLC

\* ------------------------------------------------------------------ bounds
\* Largest number of steps of a workflow handed to the resolver alone.
MaxSteps == 3
\* Longest dependency list of one step.
MaxDeps == 2
\* Largest retry count (step override and workflow default).
MaxRetries == 1

\* Pool of step names; a workflow of at most n steps uses the first n.
NameOf == <<"a", "b", "c", "d", "e">>
\* The step names of the workflows that are run.
RunNames == <<"a", "b">>
\* A dependency name that no step ever carries.
Ghost == "ghost"
\* Keys of the shared execution context that handlers write.
Keys == {"k1", "k2"}

\* ------------------------------------------------------- program constants
TemplateInit == "init"
TemplateAction == "action"
TemplateFinalize == "finalize"

VARIABLES
  workflow,     \* r.workflow: the loaded WorkflowDefinition
  registry,     \* the global handler registry: handler name -> handler
  registryLock, \* the RWMutex of the registry: its writer and its readers
  calls,        \* per goroutine: its registry call and how far it has got
  params,       \* r.params: the run-level parameters
  snapshot,     \* what NewLocalRunner found as vars.yaml in the workdir
  vars0,        \* the context NewLocalRunner loaded from vars.yaml
  vars,         \* r.vars: the shared execution context
  pc,           \* position of Run: "start", "step", "attempt", "done", or
                \* "panic" when the goroutine of Run died of a runtime panic
  steps,        \* Run's local `steps`: the resolved order
  idx,          \* index into `steps` of the step being executed
  attempt,      \* executeStep's loop variable
  input,        \* the StepInput handed to the latest handler invocation
  history,      \* per step name: the outcomes of its handler invocations
  workflowFailed, \* Run's local flag of the same name
  result,       \* Run's ExecutionResult
  disk          \* the workdir: execution-result.json and vars.yaml, the
                \* result last passed to saveResult, the warnings printed

varlist == <<workflow, registry, registryLock, calls, params, snapshot, vars0, vars, pc, steps, idx, attempt, input, history,
             workflowFailed, result, disk>>

\* ------------------------------------------------------------- utilities
Min(a, b) == IF a < b THEN a ELSE b

Range(s) == {s[i] : i \in DOMAIN s}

\* All sequences over S of length at most n.
SeqsUpTo(S, n) == UNION {[1..k -> S] : k \in 0..n}

\* All orderings of a finite set, as sequences without repetition.
Perms(S) == {q \in [1..Cardinality(S) -> S] : Range(q) = S}

\* The empty mapping (a Go map with no keys).
EmptyMap == [k \in {} |-> 0]

\* ----------------------------------------------------- workflow accessors
StepNames(w) == {w.Steps[i].Name : i \in DOMAIN w.Steps}

\* stepMap[name] of GetExecutionOrder: a later step of the same name
\* overwrites an earlier one.
StepMap(w) ==
  [n \in StepNames(w) |->
     w.Steps[CHOOSE i \in DOMAIN w.Steps :
               /\ w.Steps[i].Name = n
               /\ \A j \in DOMAIN w.Steps : w.Steps[j].Name = n => j <= i]]

\* inDegree as built by the first loop: len(step.Depends) of the last step
\* carrying the name (duplicates in Depends are counted).
InDegree(w) == [n \in StepNames(w) |-> Len(StepMap(w)[n].Depends)]

RECURSIVE Edges(_)
\* The (dependent, dependency) pairs in the order the loops over w.Steps and
\* step.Depends visit them.
Edges(ss) ==
  IF ss = <<>> THEN <<>>
  ELSE [j \in 1..Len(Head(ss).Depends) |-> <<Head(ss).Name, Head(ss).Depends[j]>>]
       \o Edges(Tail(ss))

\* dependents[dep]: the names appended for dep, one per declaration.
Dependents(w, dep) ==
  LET sel == SelectSeq(Edges(w.Steps), LAMBDA e : e[2] = dep)
  IN [i \in 1..Len(sel) |-> sel[i][1]]

\* ------------------------------------------------------- resolver errors
NoError == [kind |-> "none", step |-> "", dep |-> ""]
CycleError == [kind |-> "cycle", step |-> "", dep |-> ""]
UnknownError(s, d) == [kind |-> "unknown", step |-> s, dep |-> d]

\* A validation that lets every dependency pass.
FirstUnknownDropped(w) == NoError

\* The validation loop: the first declared dependency that is no step name.
FirstUnknown(w) ==
  LET es == Edges(w.Steps)
      bad == {i \in DOMAIN es : es[i][2] \notin StepNames(w)}
  IN IF bad = {} THEN NoError
     ELSE LET i == CHOOSE i \in bad : \A j \in bad : i <= j
          IN UnknownError(es[i][1], es[i][2])

\* An in-degree test that releases a dependent one dependency too early.
ReadyEarly(deg) == deg <= 1

\* The test `inDegree[dependent] == 0` after the decrement.
Ready(deg) == deg = 0

RECURSIVE Relax(_, _, _)
\* The loop over dependents[name]: decrement, and enqueue on reaching zero.
Relax(ds, inDeg, queue) ==
  IF ds = <<>> THEN [inDeg |-> inDeg, queue |-> queue]
  ELSE LET d == Head(ds)
           deg == inDeg[d] - 1
       IN Relax(Tail(ds), [inDeg EXCEPT ![d] = deg],
                IF Ready(deg) THEN Append(queue, d) ELSE queue)

RECURSIVE Kahn(_, _, _, _)
\* The loop `for len(queue) > 0`: pop, append to order, relax dependents.
Kahn(w, queue, inDeg, order) ==
  IF queue = <<>> THEN order
  ELSE LET name == Head(queue)
           r == Relax(Dependents(w, name), inDeg, Tail(queue))
       IN Kahn(w, r.queue, r.inDeg, Append(order, StepMap(w)[name]))

\* The names the seeding loop enqueues; Go visits the map in any order.
ZeroDegree(w) == {n \in StepNames(w) : InDegree(w)[n] = 0}

\* A cycle check that lets a short order through.
CycleCheckSkipped(order, w) == FALSE

\* A cycle check that counts the step names instead of the step definitions.
CycleCheckByName(order, w) == Len(order) # Cardinality(StepNames(w))

\* The check `len(order) != len(w.Steps)`.
CycleCheck(order, w) == Len(order) # Len(w.Steps)

\* GetExecutionOrder with the seeding order `seed` of the ready queue.
GetExecutionOrder(w, seed) ==
  LET unknown == FirstUnknown(w)
  IN IF unknown.kind # "none" THEN [order |-> <<>>, err |-> unknown]
     ELSE LET order == Kahn(w, seed, InDegree(w), <<>>)
          IN IF CycleCheck(order, w) THEN [order |-> <<>>, err |-> CycleError]
             ELSE [order |-> order, err |-> NoError]

\* ---------------------------------------------------------------- retries
\* A retry lookup that ignores the step's own override.
GetRetriesDefaultOnly(w, step) ==
  IF w.DefaultRetries > 0 THEN w.DefaultRetries ELSE 0

\* WorkflowDefinition.GetRetries.
GetRetries(w, step) ==
  IF step.Retries > 0 THEN step.Retries
  ELSE IF w.DefaultRetries > 0 THEN w.DefaultRetries
  ELSE 0

\* An attempt budget that forgets the first attempt.
MaxAttemptsNoFirst(w, step) == GetRetries(w, step)

\* `maxAttempts := r.workflow.GetRetries(step) + 1`.
MaxAttempts(w, step) == GetRetries(w, step) + 1

\* WorkflowDefinition.GetHandlerName: "<prefix>-<step>" or "<platform>-<step>",
\* kept as the pair of its two parts.
GetHandlerName(w, step) ==
  IF w.HandlerPrefix # "" THEN <<w.HandlerPrefix, step.Name>>
  ELSE <<w.Platform, step.Name>>

\* A lookup that finds a handler under every name.
GetAnything(name) == TRUE

\* taskkit.Get: whether the name is bound in the registry.
Get(name) == name \in DOMAIN registry

\* ------------------------------------------------------- handler outcomes
\* The value a handler of `name` writes on attempt `a`: it names its writer.
Stamp(name, a) == <<name, a>>

\* The two message lists a handler returns: without and with an ERROR.
MessageLists == {<<"INFO">>, <<"WARNING", "ERROR">>}

\* The StepResults a handler invocation may return.
Outcomes(name, a) ==
  {[Messages |-> m, Output |-> Stamp(name, a), FlowControl |-> [skip |-> s],
    ContextUpdates |-> [k \in K |-> Stamp(name, a)]] :
     m \in MessageLists, s \in BOOLEAN, K \in SUBSET Keys}

\* StepResult.HasErrors.
HasErrors(out) == \E i \in DOMAIN out.Messages : out.Messages[i] = "ERROR"

\* A status decision that gives up at the first failed attempt.
StatusAfterNoRetry(out, a, maxAttempts) ==
  IF out.FlowControl.skip THEN "Skipped"
  ELSE IF ~HasErrors(out) THEN "Succeeded"
  ELSE "Failed"

\* A status decision that looks at the error messages before the skip flag.
StatusAfterErrorsFirst(out, a, maxAttempts) ==
  IF ~HasErrors(out) THEN "Succeeded"
  ELSE IF out.FlowControl.skip THEN "Skipped"
  ELSE IF a = maxAttempts THEN "Failed"
  ELSE ""

\* A status decision that marks an exhausted step as still pending.
StatusAfterPending(out, a, maxAttempts) ==
  IF out.FlowControl.skip THEN "Skipped"
  ELSE IF ~HasErrors(out) THEN "Succeeded"
  ELSE IF a = maxAttempts THEN "Pending"
  ELSE ""

\* The body of the retry loop after the handler returned: the status it sets,
\* or "" when the loop goes on to the next attempt.
StatusAfter(out, a, maxAttempts) ==
  IF out.FlowControl.skip THEN "Skipped"
  ELSE IF ~HasErrors(out) THEN "Succeeded"
  ELSE IF a = maxAttempts THEN "Failed"
  ELSE ""

\* A merge that drops the updates.
MergeDropped(v, upd) == v

\* `for k, v := range stepResult.ContextUpdates { r.vars[k] = v }`.
MergeUpdates(v, upd) ==
  [k \in DOMAIN v \cup DOMAIN upd |-> IF k \in DOMAIN upd THEN upd[k] ELSE v[k]]

\* A loop that merges the context updates of every pass.
ContextAfterEveryPass(v, out, status) == MergeUpdates(v, out.ContextUpdates)

\* r.vars after one pass of the retry loop that set `status`: the merge
\* stands after the loop, so only the pass that ends the loop is followed by
\* it, with the stepResult of that pass.
ContextAfter(v, out, status) ==
  IF status = "" THEN v ELSE MergeUpdates(v, out.ContextUpdates)

\* --------------------------------------------------------- Run's control
\* The scan `for _, s := range steps` for a finalize-tagged step.
HasFinalize(ss) == \E i \in DOMAIN ss : ss[i].Template = TemplateFinalize

\* A halting rule that stops at every failure.
ShouldBreakAlways(exec, step, ss) == exec.Status = "Failed"

\* A halting rule that never stops.
ShouldBreakNever(exec, step, ss) == FALSE

\* A halting rule that goes on only for a finalize-tagged step still to come.
ShouldBreakUnlessFinalizeAhead(exec, step, ss) ==
  /\ exec.Status = "Failed"
  /\ step.Template # TemplateFinalize
  /\ \E i \in DOMAIN ss :
       /\ ss[i].Name = step.Name
       /\ \A j \in (i + 1)..Len(ss) : ss[j].Template # TemplateFinalize

\* Whether Run leaves its loop after this step (the `break`).
ShouldBreak(exec, step, ss) ==
  /\ exec.Status = "Failed"
  /\ step.Template # TemplateFinalize
  /\ ~HasFinalize(ss)

\* A failure flag that also counts skipped steps.
MarksFailedOrSkipped(exec) == exec.Status \in {"Failed", "Skipped"}

\* `if stepExec.Status == "Failed" { workflowFailed = true`.
MarksFailed(exec) == exec.Status = "Failed"

\* "Determine final result".
FinalResult(failed) == IF failed THEN "Failed" ELSE "Succeeded"

NoFile == [Result |-> "no file"]
NoHandler == <<"", "">>
\* StepExec.Output of a step whose handler returned nothing.
NoOutput == <<"", 0>>
NoInput == [StepName |-> "", Attempt |-> 0, TotalRetries |-> 0,
            Params |-> EmptyMap, Vars |-> EmptyMap]

\* A merge that builds the effective parameters in r.params itself.
mergeParamsInPlace(rp, sp) ==
  LET m == [k \in DOMAIN rp \cup DOMAIN sp |-> IF k \in DOMAIN sp THEN sp[k] ELSE rp[k]]
  IN [merged |-> m, params |-> m]

\* LocalRunner.mergeParams: a new map that takes r.params and then the
\* step's parameters over it; `merged` is the map returned and `params` is
\* r.params after the call.
mergeParams(rp, sp) ==
  [merged |-> [k \in DOMAIN rp \cup DOMAIN sp |->
                 IF k \in DOMAIN sp THEN sp[k] ELSE rp[k]],
   params |-> rp]

\* saveResult / saveVars: the file after the call; a failed write only warns.
Written(old, new, ok) == IF ok THEN new ELSE old

\* The warnings after a write of `file` that went well or not.
Warned(ws, file, ok) == IF ok THEN ws ELSE ws \cup {file}

\* A saveResult that is never reached.
saveResultSkipped(d, res, ok) == d

\* A saveResult that keeps quiet about a failed write.
saveResultSilent(d, res, ok) ==
  [d EXCEPT !.received = res, !.result = Written(@, res, ok)]

\* LocalRunner.saveResult: the workdir after the call with `res`.
saveResult(d, res, ok) ==
  [d EXCEPT !.received = res,
            !.result = Written(@, res, ok),
            !.warnings = Warned(@, "result", ok)]

\* LocalRunner.saveVars: the workdir after the call with r.vars = v.
saveVars(d, v, ok) ==
  [d EXCEPT !.vars = Written(@, v, ok),
            !.warnings = Warned(@, "vars", ok)]

\* Run, lines 113-150: append the record, decide to go on or to stop, and on
\* leaving the loop set the overall result and save result and variables.
AfterStep(exec, vars1) ==
  LET recs == Append(result.Steps, exec)
      failed == workflowFailed \/ MarksFailed(exec)
      step == steps[idx]
  IN /\ vars' = vars1
     /\ workflowFailed' = failed
     /\ IF ShouldBreak(exec, step, steps) \/ idx = Len(steps)
        THEN LET final == [result EXCEPT !.Steps = recs,
                                         !.Result = FinalResult(failed),
                                         !.FinalVars = vars1]
             IN /\ result' = final
                /\ \E okR \in BOOLEAN, okV \in BOOLEAN :
                     disk' = saveVars(saveResult(disk, final, okR), vars1, okV)
                /\ pc' = "done"
                /\ idx' = idx
        ELSE /\ result' = [result EXCEPT !.Steps = recs]
             /\ disk' = disk
             /\ pc' = "step"
             /\ idx' = idx + 1

\* An error result that carries no message.
ErrorResultNoMessage(res, err) == [res EXCEPT !.Result = "Error"]

\* Run, lines 98-101: the result of a run whose order could not be resolved.
ErrorResult(res, err) ==
  [res EXCEPT !.Result = "Error", !.ErrorMessage = err]

\* Run, lines 85-107: resolve the order; a resolver error ends the run.
RunStart ==
  /\ pc = "start"
  /\ \E seed \in Perms(ZeroDegree(workflow)) :
       LET r == GetExecutionOrder(workflow, seed)
       IN IF r.err.kind # "none"
          THEN LET final == ErrorResult(result, r.err)
               IN /\ result' = final
                  /\ \E okR \in BOOLEAN :
                       disk' = saveResult(disk, final, okR)
                  /\ pc' = "done"
                  /\ steps' = r.order
          ELSE /\ steps' = r.order
               /\ pc' = "step"
               /\ UNCHANGED <<result, disk>>
  /\ UNCHANGED <<workflow, registry, registryLock, calls, params, snapshot, vars0,
                 vars, idx, attempt, input, history,
                 workflowFailed>>

\* executeStep, lines 153-186: look the handler up; without one the step
\* fails at once, else the input is built for the first attempt.
ExecuteStep ==
  /\ pc = "step"
  /\ LET step == steps[idx]
         handlerName == GetHandlerName(workflow, step)
         m == mergeParams(params, step.Params)
     IN IF ~Get(handlerName)
        THEN /\ AfterStep([Name |-> step.Name, Handler |-> handlerName,
                           Status |-> "Failed",
                           Error |-> [text |-> "handler not found",
                                      handler |-> handlerName],
                           Messages |-> <<>>, Output |-> NoOutput,
                           Updates |-> {}], vars)
             /\ UNCHANGED <<attempt, input, params>>
        ELSE /\ input' = [StepName |-> step.Name, Attempt |-> 1,
                          TotalRetries |-> GetRetries(workflow, step),
                          Params |-> m.merged,
                          Vars |-> vars]
             /\ params' = m.params
             /\ attempt' = 1
             /\ pc' = "attempt"
             /\ UNCHANGED <<vars, idx, workflowFailed, result, disk>>
  /\ UNCHANGED <<workflow, registry, registryLock, calls, snapshot, vars0, steps,
                 history>>

\* A record that keeps no messages and no output.
RecordedNothing(exec, out) == exec

\* "Record results": `exec.Messages = stepResult.Messages` and
\* `exec.Output = stepResult.Output`, after the loop, from the stepResult of
\* its last pass.
Recorded(exec, out) ==
  [exec EXCEPT !.Messages = out.Messages, !.Output = out.Output]

\* An input that keeps the attempt number it was built with.
WithAttemptStale(in, a) == in

\* `input.Attempt = attempt` at the head of the loop body.
WithAttempt(in, a) == [in EXCEPT !.Attempt = a]

\* The value a handler of `name` stores on attempt `a` when it writes to the
\* Vars map of its input instead of returning a context update.
Scribble(name, a) == <<"direct", name, a>>

\* The map behind StepInput.Vars after the handler assigned the keys ks in it.
DirectWrite(v, ks, name, a) ==
  [k \in DOMAIN v \cup ks |-> IF k \in ks THEN Scribble(name, a) ELSE v[k]]

\* The context an earlier run left in vars.yaml.
PriorVars == [k \in {"k1"} |-> <<"old", 0>>]

\* NewLocalRunner, lines 59-64: `vars := make(map[string]any)`, then, when
\* vars.yaml can be read, `yaml.Unmarshal(data, &vars)` with its error
\* dropped.  By what the workdir holds as vars.yaml:
\*   "missing"     no file: ReadFile fails and vars stays the fresh map;
\*   "valid"       the mapping an earlier run saved: vars holds its entries;
\*   "unparsable"  bytes that are no YAML mapping (a syntax error, a scalar,
\*                 a list): Unmarshal fails and vars stays the fresh map;
\*   "null"        a YAML null document (`null`, `~`, a lone `---`):
\*                 Unmarshal sets the map it is pointed at to its zero value,
\*                 the nil map, and reports no error.
\* A nil map reads as the empty map.
Loaded(kind) ==
  [vars |-> IF kind = "valid" THEN PriorVars ELSE EmptyMap,
   nil |-> kind = "null"]

\* What a run usually finds: no vars.yaml, or the one of an earlier run.
UsualSnapshots == {"missing", "valid"}

\* A vars.yaml that is missing or does not hold a saved context.
BrokenSnapshots == {"missing", "unparsable", "null"}

\* r.vars is the nil map: NewLocalRunner is the only place that assigns the
\* field, so it is nil for the whole run when the load left it nil.
NilVars == Loaded(snapshot).nil

\* A pass assigns an entry of the map r.vars: the handler does through
\* input.Vars (the keys ks), or the merge loop `r.vars[k] = v` runs at least
\* once after the retry loop ended with a status.
Assigns(ks, out, status) ==
  ks # {} \/ (status # "" /\ DOMAIN out.ContextUpdates # {})

\* executeStep, lines 189-238: one pass of the retry loop.  The handler is
\* called with the input, whose Vars is the map r.vars; it assigns the keys
\* ks (one of Writes) in that map and returns `out`.  When the loop ends, the
\* record is filled, the context updates are merged and Run goes on
\* (AfterStep).  As input.Vars and r.vars are one map, input.Vars follows
\* every change of r.vars.  An assignment to an entry of a nil map is a
\* runtime panic, which nothing in Run recovers: the run ends there, with no
\* record appended, nothing saved and nothing returned.
Pass(Writes) ==
  /\ pc = "attempt"
  /\ attempt <= MaxAttempts(workflow, steps[idx])
  /\ LET step == steps[idx]
         maxAttempts == MaxAttempts(workflow, step)
     IN \E out \in Outcomes(step.Name, attempt), ks \in Writes :
          LET status == StatusAfter(out, attempt, maxAttempts)
              live == DirectWrite(vars, ks, step.Name, attempt)
              after == ContextAfter(live, out, status)
          IN /\ history' = [history EXCEPT ![step.Name] =
                              Append(@, [err |-> HasErrors(out),
                                         skip |-> out.FlowControl.skip])]
             /\ IF NilVars /\ Assigns(ks, out, status)
                THEN /\ pc' = "panic"
                     /\ attempt' = attempt
                     /\ input' = WithAttempt(input, attempt)
                     /\ UNCHANGED <<vars, idx, workflowFailed, result, disk>>
                ELSE IF status = ""
                THEN /\ attempt' = attempt + 1
                     /\ vars' = after
                     /\ input' = [WithAttempt(input, attempt) EXCEPT !.Vars = after]
                     /\ UNCHANGED <<pc, idx, workflowFailed, result, disk>>
                ELSE /\ attempt' = attempt
                     /\ input' = [WithAttempt(input, attempt) EXCEPT !.Vars = after]
                     /\ AfterStep(
                          Recorded(
                            [Name |-> step.Name,
                             Handler |-> GetHandlerName(workflow, step),
                             Status |-> status,
                             Error |-> [text |-> IF status = "Skipped"
                                                 THEN "skip reason" ELSE "",
                                        handler |-> NoHandler],
                             Messages |-> <<>>,
                             Output |-> NoOutput,
                             Updates |-> DOMAIN out.ContextUpdates],
                            out),
                          after)
  /\ UNCHANGED <<workflow, registry, registryLock, calls, params, snapshot, vars0,
                 steps>>

\* A pass whose handler leaves the maps of its input alone.
Invoke == Pass({{}})

\* A pass whose handler assigns a key in input.Vars.
InvokeWriting == Pass({{"k1"}})

\* ------------------------------------------------------------ registry
\* The goroutines that call the registry.
Procs == {"p1", "p2", "p3"}

\* The handler names they register and look up.
RegNames == {<<"plat", "a">>, <<"plat", "b">>}

None == "none"

\* registryLock with no holder.
Unlocked == [writer |-> None, readers |-> {}]

\* What a call has returned before it has read anything.
NoRet == [handler |-> NoHandler, ok |-> FALSE, names |-> <<>>, count |-> 0]

\* A goroutine that has made no registry call.
NoCall == [op |-> None, name |-> NoHandler, at |-> "idle", panicking |-> FALSE,
           ret |-> NoRet]

\* The handler the goroutine p passes to Register.
HandlerOf(p) == <<p, "handler">>

\* The calls of the registry's API: Register passes the caller's handler.
RegistryCalls ==
  {[op |-> o, name |-> n] : o \in {"Register", "Get"}, n \in RegNames}
  \cup {[op |-> o, name |-> NoHandler] : o \in {"ListHandlers", "HandlerCount"}}

\* A write lock that does not wait for the readers.
CanLockOverReaders(l) == l.writer = None

\* sync.RWMutex.Lock returns when there is no writer and no reader.
CanLock(l) == l.writer = None /\ l.readers = {}

\* sync.RWMutex.RLock returns when there is no writer.
CanRLock(l) == l.writer = None

\* A Register that binds the name whether or not it is bound.
RegisterOverwriting(reg, name, handler) ==
  [panic |-> FALSE,
   registry |-> [n \in DOMAIN reg \cup {name} |->
                   IF n = name THEN handler ELSE reg[n]]]

\* Register's body, lines 24-27: panic if the name is bound, else bind it.
RegisterBody(reg, name, handler) ==
  IF name \in DOMAIN reg
  THEN [panic |-> TRUE, registry |-> reg]
  ELSE [panic |-> FALSE,
        registry |-> [n \in DOMAIN reg \cup {name} |->
                        IF n = name THEN handler ELSE reg[n]]]

\* sort.Strings on handler names: by the place of the step name in NameOf.
SortedNames(S) ==
  LET place(h) == CHOOSE i \in DOMAIN NameOf : NameOf[i] = h[2]
  IN CHOOSE q \in Perms(S) :
       \A i, j \in DOMAIN q : i < j => place(q[i]) < place(q[j])

\* What a reading call returns from the registry it sees.
ReadBody(reg, c) ==
  CASE c.op = "Get" ->
         IF c.name \in DOMAIN reg
         THEN [NoRet EXCEPT !.handler = reg[c.name], !.ok = TRUE]
         ELSE NoRet
    [] c.op = "ListHandlers" -> [NoRet EXCEPT !.names = SortedNames(DOMAIN reg)]
    [] c.op = "HandlerCount" -> [NoRet EXCEPT !.count = Cardinality(DOMAIN reg)]

\* A goroutine calls one of the registry's functions.
Call(p) ==
  /\ calls[p].at = "idle"
  /\ \E c \in RegistryCalls :
       calls' = [calls EXCEPT ![p] = [NoCall EXCEPT !.op = c.op, !.name = c.name,
                                                   !.at = "lock"]]
  /\ UNCHANGED <<registry, registryLock>>

\* `registryLock.Lock()` of Register.
Lock(p) ==
  /\ calls[p].at = "lock"
  /\ calls[p].op = "Register"
  /\ CanLock(registryLock)
  /\ registryLock' = [registryLock EXCEPT !.writer = p]
  /\ calls' = [calls EXCEPT ![p].at = "body"]
  /\ UNCHANGED registry

\* `registryLock.RLock()` of Get, ListHandlers and HandlerCount.
RLock(p) ==
  /\ calls[p].at = "lock"
  /\ calls[p].op # "Register"
  /\ CanRLock(registryLock)
  /\ registryLock' = [registryLock EXCEPT !.readers = @ \cup {p}]
  /\ calls' = [calls EXCEPT ![p].at = "body"]
  /\ UNCHANGED registry

\* Register between Lock and the deferred Unlock.
Register(p) ==
  /\ calls[p].at = "body"
  /\ calls[p].op = "Register"
  /\ LET r == RegisterBody(registry, calls[p].name, HandlerOf(p))
     IN /\ registry' = r.registry
        /\ calls' = [calls EXCEPT ![p].at = "unlock", ![p].panicking = r.panic]
  /\ UNCHANGED registryLock

\* Get, ListHandlers, HandlerCount between RLock and the deferred RUnlock.
Read(p) ==
  /\ calls[p].at = "body"
  /\ calls[p].op # "Register"
  /\ calls' = [calls EXCEPT ![p].at = "unlock",
                            ![p].ret = ReadBody(registry, calls[p])]
  /\ UNCHANGED <<registry, registryLock>>

\* `defer registryLock.Unlock()`: runs when Register returns and when it
\* panics; the panic then goes on to the caller.
Unlock(p) ==
  /\ calls[p].at = "unlock"
  /\ calls[p].op = "Register"
  /\ registryLock' = [registryLock EXCEPT !.writer = None]
  /\ calls' = [calls EXCEPT ![p].at = IF calls[p].panicking THEN "panicked"
                                      ELSE "returned"]
  /\ UNCHANGED registry

\* `defer registryLock.RUnlock()`.
RUnlock(p) ==
  /\ calls[p].at = "unlock"
  /\ calls[p].op # "Register"
  /\ registryLock' = [registryLock EXCEPT !.readers = @ \ {p}]
  /\ calls' = [calls EXCEPT ![p].at = "returned"]
  /\ UNCHANGED registry

runvars == <<workflow, params, snapshot, vars0, vars, pc, steps, idx, attempt, input, history,
             workflowFailed, result, disk>>

Calling == \E p \in Procs : Call(p) /\ UNCHANGED runvars
Locking == \E p \in Procs : Lock(p) /\ UNCHANGED runvars
RLocking == \E p \in Procs : RLock(p) /\ UNCHANGED runvars
Registering == \E p \in Procs : Register(p) /\ UNCHANGED runvars
Reading == \E p \in Procs : Read(p) /\ UNCHANGED runvars
Unlocking == \E p \in Procs : Unlock(p) /\ UNCHANGED runvars
RUnlocking == \E p \in Procs : RUnlock(p) /\ UNCHANGED runvars

\* ------------------------------------------------------------ workflows
\* Step names by index, up to renaming: the first step is NameOf[1] and each
\* later step repeats an earlier name or takes the next unused one.
NamePatterns(n) ==
  {ns \in [1..n -> 1..n] :
     \A i \in 1..n : ns[i] = 1 \/ \E j \in 1..(i - 1) : ns[j] >= ns[i] - 1}

\* What a step may name as a dependency: the names in use, and Ghost.
DepNames(n) == {NameOf[i] : i \in 1..n} \cup {Ghost}

RECURSIVE DepLists(_, _, _, _)
\* The dependency lists of k steps: each of at most maxDeps names of D, with
\* at most `budget` names declared in all.
DepLists(k, D, maxDeps, budget) ==
  IF k = 0 THEN {<<>>}
  ELSE UNION {{<<d>> \o rest : rest \in DepLists(k - 1, D, maxDeps, budget - Len(d))} :
                d \in SeqsUpTo(D, Min(maxDeps, budget))}

MkStep(name, deps, template, retries) ==
  [Name |-> name, Depends |-> deps, Template |-> template, Retries |-> retries,
   Params |-> EmptyMap]

MkWorkflow(ss, defaultRetries) ==
  [Steps |-> ss, DefaultRetries |-> defaultRetries,
   Platform |-> "plat", HandlerPrefix |-> ""]

\* A workflow of n steps: names by pattern ns, dependency lists ds, template
\* tags ts, the retry override r1 on the first declared step, the default dr.
WorkflowOf(n, ns, ds, ts, r1, dr) ==
  MkWorkflow([i \in 1..n |->
                MkStep(NameOf[ns[i]], ds[i], ts[i], IF i = 1 THEN r1 ELSE 0)],
             dr)

\* The workflows handed to the resolver alone: every shape of at most
\* MaxSteps steps and MaxSteps declared dependencies.
IsOrderWorkflow(w) ==
  \E n \in 1..MaxSteps :
    \E ns \in NamePatterns(n), ds \in DepLists(n, DepNames(n), MaxDeps, MaxSteps) :
      w = WorkflowOf(n, ns, ds, [i \in 1..n |-> TemplateAction], 0, 0)

\* The workflows that are run: at most Len(RunNames) steps with at most one
\* declared dependency in all, every tagging with action or finalize, a
\* retry override on the first declared step and a workflow default.
IsRunWorkflow(w) ==
  \E n \in 1..Len(RunNames) :
    \E ns \in NamePatterns(n), ds \in DepLists(n, DepNames(n), 1, 1),
       ts \in [1..n -> {TemplateAction, TemplateFinalize}],
       r1 \in 0..MaxRetries, dr \in 0..MaxRetries :
      w = WorkflowOf(n, ns, ds, ts, r1, dr)

HandlerNames(w) == {GetHandlerName(w, w.Steps[i]) : i \in DOMAIN w.Steps}

\* The registry the init() functions leave: under each name of S the
\* handler written for that name.
Bound(S) == [h \in S |-> h]

\* The registries a run meets: every handler bound, or all but one.
Registries(w) ==
  {Bound(HandlerNames(w))} \cup {Bound(HandlerNames(w) \ {h}) : h \in HandlerNames(w)}

InitRunFrom(Snapshots) ==
  /\ snapshot \in Snapshots
  /\ registry \in Registries(workflow)
  /\ registryLock = Unlocked
  /\ calls = [p \in Procs |-> NoCall]
  /\ vars0 = Loaded(snapshot).vars
  /\ vars = vars0
  /\ pc = "start"
  /\ steps = <<>>
  /\ idx = 1
  /\ attempt = 0
  /\ input = NoInput
  /\ history = [n \in StepNames(workflow) |-> <<>>]
  /\ workflowFailed = FALSE
  /\ result = [Result |-> "", Steps |-> <<>>, ErrorMessage |-> NoError,
               FinalVars |-> EmptyMap]
  /\ disk = [result |-> NoFile, vars |-> vars, received |-> NoFile,
             warnings |-> {}]

InitRun == InitRunFrom(UsualSnapshots)

Init ==
  /\ IsRunWorkflow(workflow)
  /\ InitRun
  /\ params = EmptyMap

Next == RunStart \/ ExecuteStep \/ Invoke

Spec == Init /\ [][Next]_varlist

\* Runs from a workdir without vars.yaml.  Run is one sequential goroutine
\* and every handler invocation returns, so a step of Run that can be taken
\* is taken.
InitFair ==
  /\ IsRunWorkflow(workflow)
  /\ InitRunFrom({"missing"})
  /\ params = EmptyMap

SpecFair == InitFair /\ [][Next]_varlist /\ WF_varlist(Next)

\* Runs that start from a missing or broken vars.yaml.
InitSnapshot ==
  /\ IsRunWorkflow(workflow)
  /\ InitRunFrom(BrokenSnapshots)
  /\ params = EmptyMap

SpecSnapshot == InitSnapshot /\ [][Next]_varlist

\* The step names of the workflows run to look at the finalize rule.
FinalizeNames == <<"a", "b", "c">>

\* Workflows of three steps a, b, c with at most one declared dependency
\* among them, every tagging with action or finalize, and no retries.
IsFinalizeWorkflow(w) ==
  LET n == Len(FinalizeNames)
  IN \E ds \in DepLists(n, {FinalizeNames[i] : i \in 1..n}, 1, 1),
        ts \in [1..n -> {TemplateAction, TemplateFinalize}] :
       w = WorkflowOf(n, [i \in 1..n |-> i], ds, ts, 0, 0)

\* Runs of three steps from a workdir without vars.yaml.
InitFinalize ==
  /\ IsFinalizeWorkflow(workflow)
  /\ InitRunFrom({"missing"})
  /\ params = EmptyMap

SpecFinalize == InitFinalize /\ [][Next]_varlist

\* The resolver on its own: every workflow shape, one call of Run's first part.
InitOrder ==
  /\ IsOrderWorkflow(workflow)
  /\ InitRun
  /\ params = EmptyMap
  /\ DOMAIN registry = HandlerNames(workflow)
  /\ vars0 = EmptyMap

NextOrder == RunStart

SpecOrder == InitOrder /\ [][NextOrder]_varlist

\* The retry counts a workflow file may carry: any integer.
RetryRange == (0 - MaxRetries - 1)..MaxRetries

\* A workflow of the one step a with any override and any default.
IsBudgetWorkflow(w) ==
  \E r1 \in RetryRange, dr \in RetryRange :
    w = WorkflowOf(1, [i \in {1} |-> 1], <<(<<>>)>>,
                   [i \in {1} |-> TemplateAction], r1, dr)

\* Runs of one step over every pair of retry counts.
InitBudget ==
  /\ IsBudgetWorkflow(workflow)
  /\ InitRun
  /\ params = EmptyMap

SpecBudget == InitBudget /\ [][Next]_varlist

\* The registry on its own, before any run: the name of step a bound by an
\* init() function or not, and three goroutines with one call each.
InitRegistry ==
  /\ workflow = MkWorkflow(<<MkStep("a", <<>>, TemplateAction, 0)>>, 0)
  /\ InitRun
  /\ params = EmptyMap
  /\ vars0 = EmptyMap

NextRegistry ==
  Calling \/ Locking \/ RLocking \/ Registering \/ Reading \/ Unlocking \/ RUnlocking

SpecRegistry == InitRegistry /\ [][NextRegistry]_varlist

\* Keys of parameters, in the params file and in the steps of the workflow.
ParamKeys == {"p1", "p2"}

\* The value of a key in the params file / in the params of the step `name`.
RunValue(k) == <<"run", k>>
StepValue(name, k) == <<name, k>>

\* The workflow w with the parameter keys ps[i] set on its i-th step.
WithParams(w, ps) ==
  [w EXCEPT !.Steps = [i \in DOMAIN w.Steps |->
                         [w.Steps[i] EXCEPT !.Params =
                            [k \in ps[i] |-> StepValue(w.Steps[i].Name, k)]]]]

\* Workflows of the independent steps a and b, each with any parameters.
IsParamsWorkflow(w) ==
  \E ps \in [1..2 -> SUBSET ParamKeys] :
    w = WithParams(WorkflowOf(2, [i \in 1..2 |-> i], <<(<<>>), (<<>>)>>,
                              [i \in 1..2 |-> TemplateAction], 0, 0), ps)

\* Runs with a params file and step parameters.
InitParams ==
  /\ IsParamsWorkflow(workflow)
  /\ InitRun
  /\ \E K \in SUBSET ParamKeys : params = [k \in K |-> RunValue(k)]
  /\ vars0 = EmptyMap

SpecParams == InitParams /\ [][Next]_varlist

\* Runs whose handlers may also write to the Vars map of their input.
NextLive == RunStart \/ ExecuteStep \/ Invoke \/ InvokeWriting

SpecLive == Init /\ [][NextLive]_varlist

\* ======================================================================
\* Properties of the resolver (checked under SpecOrder)
\* ======================================================================
\* The declared dependency relation on names.
DepRel(w) == Range(Edges(w.Steps))

UniqueNames(w) ==
  \A i, j \in DOMAIN w.Steps : w.Steps[i].Name = w.Steps[j].Name => i = j

AllDepsKnown(w) ==
  LET names == StepNames(w)
  IN \A e \in DepRel(w) : e[2] \in names

\* Some names n1 -> n2 -> ... -> nk -> n1 follow declared dependencies.
HasCycle(w) ==
  LET rel == DepRel(w)
      names == StepNames(w)
  IN \E k \in 1..Len(w.Steps) :
       \E p \in [1..k -> names] :
         /\ <<p[k], p[1]>> \in rel
         /\ \A i \in 1..(k - 1) : <<p[i], p[i + 1]>> \in rel

Resolved == pc # "start"

\* The position of the step named n in the resolved order (0: not in it).
PosIn(ss, n) ==
  IF \E i \in DOMAIN ss : ss[i].Name = n
  THEN CHOOSE i \in DOMAIN ss : ss[i].Name = n
  ELSE 0

\* C1: for a workflow with unique step names, only known dependencies and an
\* acyclic dependency relation, GetExecutionOrder returns no error and an
\* order that holds every step exactly once, each declared dependency of a
\* step at a smaller index than the step.
C1_TopologicalOrder ==
  (/\ Resolved
   /\ UniqueNames(workflow)
   /\ AllDepsKnown(workflow)
   /\ ~HasCycle(workflow))
  => /\ result.Result # "Error"
     /\ result.ErrorMessage = NoError
     /\ Len(steps) = Len(workflow.Steps)
     /\ \A i \in DOMAIN workflow.Steps :
          Cardinality({j \in DOMAIN steps : steps[j] = workflow.Steps[i]}) = 1
     /\ \A i \in DOMAIN steps :
          \A d \in Range(steps[i].Depends) :
            \E j \in 1..(i - 1) : steps[j].Name = d

\* A resolved three-step workflow with a dependency listed twice, whose
\* order differs from the declared one.
C1_Witness ==
  /\ pc = "step"
  /\ Len(steps) = 3
  /\ steps # workflow.Steps
  /\ \E i \in DOMAIN steps :
       /\ Len(steps[i].Depends) = 2
       /\ steps[i].Depends[1] = steps[i].Depends[2]

\* C8: a declared dependency that names no step of the workflow makes
\* GetExecutionOrder return the unknown-dependency error, which names a step
\* and a dependency it declares that is missing, and no order; a cycle in the
\* same workflow does not change that.
C8_UnknownDependency ==
  (Resolved /\ ~AllDepsKnown(workflow))
  => /\ pc = "done"
     /\ result.Result = "Error"
     /\ steps = <<>>
     /\ result.ErrorMessage.kind = "unknown"
     /\ result.ErrorMessage.dep \notin StepNames(workflow)
     /\ <<result.ErrorMessage.step, result.ErrorMessage.dep>> \in DepRel(workflow)

\* An unknown dependency reported for a workflow that also has a cycle.
C8_Witness ==
  /\ pc = "done"
  /\ HasCycle(workflow)
  /\ UniqueNames(workflow)
  /\ result.ErrorMessage.kind = "unknown"
  /\ result.ErrorMessage.dep = Ghost

\* C9 as stated: every workflow whose dependency relation has a cycle gets
\* the dependency-cycle error and no order.
C9_AsStated ==
  (Resolved /\ HasCycle(workflow))
  => /\ result.ErrorMessage.kind = "cycle"
     /\ steps = <<>>

\* C9, amended: a workflow whose dependency relation has a cycle gets an
\* error and never an order, partial or whole; the error is the
\* dependency-cycle error when every declared dependency names a step, and
\* the unknown-dependency error otherwise.
C9_CycleDetected ==
  (Resolved /\ HasCycle(workflow))
  => /\ pc = "done"
     /\ result.Result = "Error"
     /\ steps = <<>>
     /\ result.Steps = <<>>
     /\ AllDepsKnown(workflow) => result.ErrorMessage.kind = "cycle"
     /\ ~AllDepsKnown(workflow) => result.ErrorMessage.kind = "unknown"

\* A cycle through three distinct steps, none depending on itself, reported
\* as a dependency cycle.
C9_Witness ==
  /\ pc = "done"
  /\ result.ErrorMessage.kind = "cycle"
  /\ UniqueNames(workflow)
  /\ Len(workflow.Steps) = 3
  /\ \A i \in DOMAIN workflow.Steps :
       /\ Len(workflow.Steps[i].Depends) = 1
       /\ workflow.Steps[i].Depends[1] # workflow.Steps[i].Name
  /\ \A i, j \in DOMAIN workflow.Steps :
       workflow.Steps[i].Depends = workflow.Steps[j].Depends => i = j

\* C15: the resolved order is a function of the workflow definition: every
\* resolution of the workflow that Run has resolved returns the same sequence
\* of steps as the one Run got.
C15_AsStated ==
  (Resolved /\ steps # <<>>)
  => \A seed \in Perms(ZeroDegree(workflow)) :
       GetExecutionOrder(workflow, seed).order = steps

\* ======================================================================
\* Properties of a run (checked under Spec)
\* ======================================================================
\* The record of the step named n, and whether there is one.
HasRecord(n) == \E i \in DOMAIN result.Steps : result.Steps[i].Name = n

RecordOf(n) == result.Steps[CHOOSE i \in DOMAIN result.Steps : result.Steps[i].Name = n]

\* The step definition named n (names are unique in every workflow that runs).
StepNamed(n) == StepMap(workflow)[n]

Registered(n) == GetHandlerName(workflow, StepNamed(n)) \in DOMAIN registry

\* Attempt i of the step named n reported an error and did not ask to skip.
ErrNoSkip(n, i) == history[n][i].err /\ ~history[n][i].skip

\* C2 as stated: a finished step whose first outcome without an error message
\* came on attempt K was invoked K times and is Succeeded.
C2_AsStated ==
  \A n \in DOMAIN history :
    (HasRecord(n) /\ Registered(n))
    => \A K \in DOMAIN history[n] :
         (/\ ~history[n][K].err
          /\ \A i \in 1..(K - 1) : history[n][i].err)
         => /\ Len(history[n]) = K
            /\ RecordOf(n).Status = "Succeeded"

\* C2, amended: for a step with a registered handler and N effective retries,
\* the handler is never invoked more than N+1 times; if every attempt reported
\* an error and none asked to skip, it was invoked N+1 times and the step is
\* Failed; if the first outcome without an error message came on attempt K
\* and did not ask to skip, it was invoked K times and the step is Succeeded.
C2_RetryBudget ==
  \A n \in DOMAIN history :
    LET N == GetRetries(workflow, StepNamed(n))
        h == history[n]
    IN /\ Len(h) <= N + 1
       /\ ~Registered(n) => h = <<>>
       /\ (HasRecord(n) /\ Registered(n))
          => /\ (\A i \in DOMAIN h : ErrNoSkip(n, i))
                => (Len(h) = N + 1 /\ RecordOf(n).Status = "Failed")
             /\ \A K \in DOMAIN h :
                  (/\ ~h[K].err
                   /\ ~h[K].skip
                   /\ \A i \in 1..(K - 1) : h[i].err)
                  => (Len(h) = K /\ K <= N + 1 /\ RecordOf(n).Status = "Succeeded")

\* One run in which a step with one retry failed on both attempts and was
\* Failed, and another step with one retry succeeded on its second attempt.
C2_Witness ==
  \E n, m \in DOMAIN history :
    /\ GetRetries(workflow, StepNamed(n)) = 1
    /\ GetRetries(workflow, StepNamed(m)) = 1
    /\ HasRecord(n) /\ HasRecord(m)
    /\ history[n] = <<[err |-> TRUE, skip |-> FALSE], [err |-> TRUE, skip |-> FALSE]>>
    /\ RecordOf(n).Status = "Failed"
    /\ history[m] = <<[err |-> TRUE, skip |-> FALSE], [err |-> FALSE, skip |-> FALSE]>>
    /\ RecordOf(m).Status = "Succeeded"

\* C3: an outcome with the skip directive set is the last one of its step:
\* the step is Skipped and its handler is not invoked again, whatever budget
\* is left and whether or not the outcome also carries an error message.
C3_SkipEndsStep ==
  \A n \in DOMAIN history :
    \A i \in DOMAIN history[n] :
      history[n][i].skip
      => /\ i = Len(history[n])
         /\ HasRecord(n)
         /\ RecordOf(n).Status = "Skipped"
         /\ ~(pc = "attempt" /\ steps[idx].Name = n)

\* A step with a retry left that asked to skip on its first attempt, in an
\* outcome that also carried an error message: one invocation, Skipped; and
\* the run is over.
C3_Witness ==
  /\ pc = "done"
  /\ \E n \in DOMAIN history :
       /\ GetRetries(workflow, StepNamed(n)) >= 1
       /\ history[n] = <<[err |-> TRUE, skip |-> TRUE]>>
       /\ RecordOf(n).Status = "Skipped"

\* C4: in a workflow without a finalize-tagged step, a Failed record is the
\* last one: the run is over, no later step of the resolved order has a
\* record, and no handler of a later step was invoked.
C4_HaltOnFailure ==
  (Resolved /\ ~HasFinalize(workflow.Steps))
  => \A i \in DOMAIN result.Steps :
       result.Steps[i].Status = "Failed"
       => /\ pc = "done"
          /\ Len(result.Steps) = i
          /\ result.Steps[i].Name = steps[i].Name
          /\ \A j \in (i + 1)..Len(steps) :
               /\ history[steps[j].Name] = <<>>
               /\ ~HasRecord(steps[j].Name)
               /\ input.StepName # steps[j].Name

\* A finished run of two steps without a finalize tag: the first in order
\* Failed after its handler reported errors, and the second, which does not
\* depend on it and has a registered handler, never ran.
C4_Witness ==
  /\ pc = "done"
  /\ ~HasFinalize(workflow.Steps)
  /\ Len(steps) = 2
  /\ Len(result.Steps) = 1
  /\ result.Steps[1].Status = "Failed"
  /\ Len(history[steps[1].Name]) >= 1
  /\ steps[2].Depends = <<>>
  /\ Registered(steps[2].Name)
  /\ history[steps[2].Name] = <<>>

\* C5: in a workflow with a finalize-tagged step, a Failed step that is not
\* finalize-tagged does not end the run: the run ends only after every step
\* of the resolved order has its record, so every finalize-tagged step later
\* in the order is executed after the failure, and the overall result is
\* Failed.
C5_FinalizeStillRuns ==
  \A i \in DOMAIN result.Steps :
    (/\ result.Steps[i].Status = "Failed"
     /\ steps[i].Template # TemplateFinalize
     /\ HasFinalize(workflow.Steps))
    => /\ pc = "done" => /\ Len(result.Steps) = Len(steps)
                         /\ result.Result = "Failed"
       /\ pc # "done" => /\ Len(result.Steps) < Len(steps)
                         /\ idx = Len(result.Steps) + 1
       /\ \A j \in DOMAIN result.Steps : result.Steps[j].Name = steps[j].Name

\* The run "B fails, finalize depends on B": B is Failed, the finalize-tagged
\* step ran after it and Succeeded, the overall result is Failed.
C5_Witness ==
  /\ pc = "done"
  /\ Len(steps) = 2
  /\ steps[1].Template = TemplateAction
  /\ steps[2].Template = TemplateFinalize
  /\ steps[2].Depends = <<steps[1].Name>>
  /\ Len(result.Steps) = 2
  /\ result.Steps[1].Status = "Failed"
  /\ Len(history[steps[1].Name]) >= 1
  /\ result.Steps[2].Status = "Succeeded"
  /\ Len(history[steps[2].Name]) >= 1
  /\ result.Result = "Failed"

\* C6: a run whose order was resolved ends Failed exactly when some record
\* is Failed and Succeeded otherwise; Skipped records do not make it Failed.
C6_OverallResult ==
  (pc = "done" /\ steps # <<>>)
  => /\ result.Result \in {"Failed", "Succeeded"}
     /\ result.Result = "Failed"
          <=> \E i \in DOMAIN result.Steps : result.Steps[i].Status = "Failed"

\* A finished run with a Skipped record and a Succeeded one, overall Succeeded.
C6_Witness ==
  /\ pc = "done"
  /\ Len(result.Steps) = 2
  /\ \E i \in DOMAIN result.Steps : result.Steps[i].Status = "Skipped"
  /\ \E i \in DOMAIN result.Steps : result.Steps[i].Status = "Succeeded"
  /\ result.Result = "Succeeded"

\* The resolver reports an error for the workflow (whatever the seeding order).
ResolverFails(w) ==
  \E seed \in Perms(ZeroDegree(w)) : GetExecutionOrder(w, seed).err # NoError

\* C7: when the resolver reports an error, Run ends at once with overall
\* result Error, an error message, no record, no handler invoked and the
\* shared context as it was loaded.
C7_ResolverErrorEndsRun ==
  (Resolved /\ ResolverFails(workflow))
  => /\ pc = "done"
     /\ result.Result = "Error"
     /\ result.ErrorMessage.kind \in {"unknown", "cycle"}
     /\ result.Steps = <<>>
     /\ \A n \in DOMAIN history : history[n] = <<>>
     /\ input = NoInput
     /\ vars = vars0
     /\ disk.vars = vars0

\* A run ended by a cycle error with a context loaded from an earlier run
\* and every handler registered.
C7_Witness ==
  /\ pc = "done"
  /\ result.Result = "Error"
  /\ result.ErrorMessage.kind = "cycle"
  /\ vars0 # EmptyMap
  /\ DOMAIN registry = HandlerNames(workflow)

\* The context a step at position i of the resolved order must be shown: for
\* every key the value written by the final attempt of the latest earlier
\* step that updated the key, else the loaded value.
ExpectedView(i) ==
  LET writers(k) == {j \in 1..(i - 1) : k \in result.Steps[j].Updates}
      written == {k \in Keys : writers(k) # {}}
      last(k) == CHOOSE j \in writers(k) : \A l \in writers(k) : l <= j
  IN [k \in written \cup DOMAIN vars0 |->
        IF k \in written
        THEN Stamp(steps[last(k)].Name, Len(history[steps[last(k)].Name]))
        ELSE vars0[k]]

\* C10: steps run one at a time in resolved order: while a step is being
\* attempted every earlier step has its record and no later step has been
\* invoked, and the context in the step's input holds every update merged
\* from the final attempts of the earlier steps, a later writer of a key
\* replacing an earlier one.
C10_SequentialContext ==
  /\ (pc \in {"step", "attempt"})
     => /\ Len(result.Steps) = idx - 1
        /\ \A j \in 1..(idx - 1) : result.Steps[j].Name = steps[j].Name
        /\ \A j \in (idx + 1)..Len(steps) : history[steps[j].Name] = <<>>
        /\ vars = ExpectedView(idx)
  /\ pc = "step" => history[steps[idx].Name] = <<>>
  /\ pc = "attempt"
     => /\ input.StepName = steps[idx].Name
        /\ input.Vars = ExpectedView(idx)
        /\ Len(history[steps[idx].Name]) = attempt - 1
  /\ pc = "done" /\ steps # <<>>
     => vars = ExpectedView(Len(result.Steps) + 1)

\* The second step's handler was invoked with a context in which the first
\* step, on its second and final attempt, replaced a loaded value of k1 and
\* added k2.
C10_Witness ==
  /\ Len(steps) = 2
  /\ Len(history[steps[2].Name]) >= 1
  /\ input.StepName = steps[2].Name
  /\ vars0 # EmptyMap
  /\ Len(history[steps[1].Name]) = 2
  /\ result.Steps[1].Updates = {"k1", "k2"}
  /\ input.Vars = [k \in {"k1", "k2"} |-> Stamp(steps[1].Name, 2)]

\* The number of handler invocations of the step named n.
Invocations(n) == Len(history[n])

\* The step named n is the one whose retry loop is running.
InLoop(n) == pc = "attempt" /\ steps[idx].Name = n

\* C12: the context updates of a step whose handler was invoked are merged
\* once, after its final attempt and from that attempt's outcome, whatever
\* the status: while the step's loop runs the context holds no value of the
\* step; afterwards it holds, under every key the final outcome updated, the
\* value of the final attempt (or that of a later step), and under no key a
\* value of an earlier attempt or of a key the final outcome did not update.
C12_MergeOnceAfterFinal ==
  \A n \in DOMAIN history :
    /\ (InLoop(n) \/ ~HasRecord(n))
       => \A k \in DOMAIN vars, a \in 1..(MaxRetries + 1) : vars[k] # Stamp(n, a)
    /\ (HasRecord(n) /\ Invocations(n) >= 1)
       => /\ RecordOf(n).Status \in {"Succeeded", "Failed", "Skipped"}
          /\ \A k \in RecordOf(n).Updates :
               /\ k \in DOMAIN vars
               /\ \/ vars[k] = Stamp(n, Invocations(n))
                  \/ \E i \in (PosIn(steps, n) + 1)..Len(result.Steps) :
                       /\ k \in result.Steps[i].Updates
                       /\ vars[k] = Stamp(steps[i].Name, Invocations(steps[i].Name))
          /\ \A k \in DOMAIN vars, a \in 1..(MaxRetries + 1) :
               vars[k] = Stamp(n, a)
               => (a = Invocations(n) /\ k \in RecordOf(n).Updates)
          /\ pc = "done" => result.FinalVars = vars

\* A finished run in which a step was attempted twice and ended Failed, its
\* second outcome updating k2 only, and another step ended Skipped with an
\* update of k1: the context holds exactly the two final values.
C12_Witness ==
  /\ pc = "done"
  /\ vars0 = EmptyMap
  /\ \E n, m \in DOMAIN history :
       /\ Invocations(n) = 2
       /\ RecordOf(n).Status = "Failed"
       /\ RecordOf(n).Updates = {"k2"}
       /\ Invocations(m) = 1
       /\ RecordOf(m).Status = "Skipped"
       /\ RecordOf(m).Updates = {"k1"}
       /\ vars = [k \in Keys |-> IF k = "k1" THEN Stamp(m, 1) ELSE Stamp(n, 2)]

\* Run is about to execute a step whose handler key is not bound.
AtUnboundStep == pc = "step" /\ ~Registered(steps[idx].Name)

\* C13: a step whose handler key is not bound in the registry is never
\* attempted, whatever its retry count: executing it appends a Failed record
\* whose error names the missing key, in one move that starts no retry loop,
\* invokes no handler and leaves the shared context as it was.
C13_HandlerNotFound ==
  /\ [](\A n \in DOMAIN history :
          ~Registered(n)
          => /\ history[n] = <<>>
             /\ ~InLoop(n)
             /\ input.StepName # n
             /\ HasRecord(n)
                => /\ RecordOf(n).Status = "Failed"
                   /\ RecordOf(n).Error.text = "handler not found"
                   /\ RecordOf(n).Error.handler
                        = GetHandlerName(workflow, StepNamed(n))
                   /\ RecordOf(n).Updates = {})
  /\ [][AtUnboundStep
        => /\ Len(result'.Steps) = Len(result.Steps) + 1
           /\ result'.Steps[Len(result'.Steps)].Name = steps[idx].Name
           /\ result'.Steps[Len(result'.Steps)].Status = "Failed"
           /\ pc' \in {"step", "done"}
           /\ vars' = vars
           /\ history' = history
           /\ input' = input]_varlist

\* A step with one retry and no bound handler has its Failed record after a
\* first step changed the loaded context, which is as that step left it.
C13_Witness ==
  /\ Len(result.Steps) = 2
  /\ ~Registered(steps[2].Name)
  /\ GetRetries(workflow, steps[2]) = 1
  /\ result.Steps[2].Status = "Failed"
  /\ result.Steps[2].Error.handler = <<"plat", steps[2].Name>>
  /\ history[steps[2].Name] = <<>>
  /\ vars0 # EmptyMap
  /\ vars = [k \in {"k1"} |-> Stamp(steps[1].Name, 1)]

\* C16: a Failed record of a finalize-tagged step is the last one: the run
\* is over, and no step later in the resolved order has a record or had its
\* handler invoked.
C16_AsStated ==
  \A i \in DOMAIN result.Steps :
    (result.Steps[i].Status = "Failed" /\ steps[i].Template = TemplateFinalize)
    => /\ pc = "done"
       /\ Len(result.Steps) = i
       /\ \A j \in (i + 1)..Len(steps) :
            /\ history[steps[j].Name] = <<>>
            /\ ~HasRecord(steps[j].Name)

\* The step whose input `input` is.
InputStep == StepNamed(input.StepName)

\* The attempt number the input must carry: that of the latest invocation of
\* its step, and 1 from the time it is built to the first invocation.
AttemptNumber ==
  IF Invocations(input.StepName) = 0 THEN 1 ELSE Invocations(input.StepName)

\* C17 as stated: the input of a step carries the attempt number and, as its
\* total, the attempt budget retries(step)+1.
C17_AsStated ==
  input # NoInput
  => /\ input.Attempt = AttemptNumber
     /\ input.TotalRetries
          = (IF InputStep.Retries > 0 THEN InputStep.Retries
             ELSE IF workflow.DefaultRetries > 0 THEN workflow.DefaultRetries
             ELSE 0) + 1

\* C17, amended: on the k-th invocation of a step's handler, k = 1, 2, ...
\* without a gap, the input carries attempt number k, and its TotalRetries
\* is retries(step), the number of retries: one less than the attempt budget.
C17_InputAttempt ==
  /\ input # NoInput
     => /\ input.Attempt = AttemptNumber
        /\ (InLoop(input.StepName) /\ Invocations(input.StepName) >= 1)
           => attempt = input.Attempt + 1
        /\ input.TotalRetries
             = IF InputStep.Retries > 0 THEN InputStep.Retries
               ELSE IF workflow.DefaultRetries > 0 THEN workflow.DefaultRetries
               ELSE 0
        /\ input.TotalRetries = MaxAttempts(workflow, InputStep) - 1
        /\ input.Attempt <= input.TotalRetries + 1
  /\ \A n \in DOMAIN history :
       Invocations(n) >= 1 => (input # NoInput /\ PosIn(steps, n) <= PosIn(steps, input.StepName))

\* The second invocation of a step with one retry: the input carries attempt
\* number 2 and TotalRetries 1, the last of two allowed attempts.
C17_Witness ==
  /\ input # NoInput
  /\ Invocations(input.StepName) = 2
  /\ input.Attempt = 2
  /\ input.TotalRetries = 1
  /\ MaxAttempts(workflow, InputStep) = 2

\* The messages of an outcome that reported an error, and of one that did not.
MessagesOf(err) == IF err THEN <<"WARNING", "ERROR">> ELSE <<"INFO">>

\* C21: the record of a step whose handler was invoked holds the messages
\* and the output of the outcome of the last attempt and nothing of an
\* earlier attempt: its messages are that outcome's list, not a longer one,
\* and its output is the one stamped with the number of the last attempt.
C21_LastOutcomeRecorded ==
  \A n \in DOMAIN history :
    (HasRecord(n) /\ Invocations(n) >= 1)
    => /\ RecordOf(n).Messages = MessagesOf(history[n][Invocations(n)].err)
       /\ RecordOf(n).Output = Stamp(n, Invocations(n))
       /\ \A a \in 1..(Invocations(n) - 1) : RecordOf(n).Output # Stamp(n, a)

\* A step that reported an error on its first attempt and none on its
\* second: the record holds the second outcome's one message and its output.
C21_Witness ==
  \E n \in DOMAIN history :
    /\ HasRecord(n)
    /\ history[n] = <<[err |-> TRUE, skip |-> FALSE], [err |-> FALSE, skip |-> FALSE]>>
    /\ RecordOf(n).Status = "Succeeded"
    /\ RecordOf(n).Messages = <<"INFO">>
    /\ RecordOf(n).Output = Stamp(n, 2)

\* Run has returned (its result is `result`).
Returned == pc = "done"

\* C22: a Run that has returned passed its result, as returned, to
\* saveResult, whether the overall result is Succeeded, Failed or Error;
\* unless the write failed, execution-result.json holds that result; and
\* nothing is passed to saveResult before the run is over.
C22_ResultHandedToSink ==
  /\ Returned
     => /\ result.Result \in {"Succeeded", "Failed", "Error"}
        /\ disk.received = result
        /\ "result" \notin disk.warnings => disk.result = result
  /\ ~Returned
     => /\ disk.received = NoFile
        /\ disk.result = NoFile

\* A run that ended with a resolver error and whose result, with the error
\* message, is in execution-result.json.
C22_Witness ==
  /\ Returned
  /\ result.Result = "Error"
  /\ result.ErrorMessage.kind = "unknown"
  /\ disk.received = result
  /\ disk.result = result

\* C23: a failed write of the result file or of the variable snapshot leaves
\* a warning and the old file, and nothing else: Run has returned a result
\* that is Error exactly when the order could not be resolved and else
\* Failed exactly when a record is Failed, whose records are those of the
\* executed steps with their statuses and whose final context is the
\* Runner's context; a write that went well leaves no warning.
C23_WriteFailureOnlyWarns ==
  /\ disk.warnings # {} => Returned
  /\ Returned
     => /\ "result" \in disk.warnings <=> disk.result # result
        /\ "result" \in disk.warnings => disk.result = NoFile
        /\ "vars" \in disk.warnings => (disk.vars = vars0 /\ steps # <<>>)
        /\ ("vars" \notin disk.warnings /\ steps # <<>>) => disk.vars = vars
        /\ result.Result = "Error" <=> steps = <<>>
        /\ steps # <<>>
           => /\ result.Result
                   = FinalResult(\E i \in DOMAIN result.Steps :
                                   result.Steps[i].Status = "Failed")
              /\ result.FinalVars = vars
              /\ vars = ExpectedView(Len(result.Steps) + 1)
              /\ \A i \in DOMAIN result.Steps :
                   /\ result.Steps[i].Name = steps[i].Name
                   /\ Invocations(steps[i].Name) >= 1
                      => result.Steps[i].Status
                           = StatusAfter(
                               [FlowControl |-> [skip |-> history[steps[i].Name][Invocations(steps[i].Name)].skip],
                                Messages |-> MessagesOf(history[steps[i].Name][Invocations(steps[i].Name)].err)],
                               Invocations(steps[i].Name),
                               MaxAttempts(workflow, steps[i]))

\* Both writes failed at the end of a run of two steps that Succeeded and
\* changed the context: the result is Succeeded with both records and the
\* final context, and the files are as they were.
C23_Witness ==
  /\ Returned
  /\ disk.warnings = {"result", "vars"}
  /\ result.Result = "Succeeded"
  /\ Len(result.Steps) = 2
  /\ \A i \in 1..2 : result.Steps[i].Status = "Succeeded"
  /\ result.FinalVars = vars
  /\ vars # vars0
  /\ disk.result = NoFile
  /\ disk.vars = vars0

\* The final statuses of a Step Execution Record.
FinalStatuses == {"Succeeded", "Failed", "Skipped"}

\* The records are those of the first steps of the resolved order, in order.
RecordsArePrefix ==
  /\ Len(result.Steps) <= Len(steps)
  /\ \A i \in DOMAIN result.Steps : result.Steps[i].Name = steps[i].Name

\* No step has two records.
OneRecordPerStep ==
  \A i, j \in DOMAIN result.Steps :
    result.Steps[i].Name = result.Steps[j].Name => i = j

\* In this step no handler of a step that has a record is invoked.
NoInvocationAfterRecord ==
  \A n \in StepNames(workflow) : HasRecord(n) => history'[n] = history[n]

\* C25: in every state of a run the records are a prefix of the resolved
\* order with at most one record per step, every record's status is one of
\* Succeeded, Failed and Skipped, the retry loop never runs for a step that
\* has a record, and no step of the run invokes the handler of such a step.
C25_RecordsInvariant ==
  /\ [](/\ RecordsArePrefix
        /\ OneRecordPerStep
        /\ \A i \in DOMAIN result.Steps : result.Steps[i].Status \in FinalStatuses
        /\ \A n \in StepNames(workflow) : HasRecord(n) => ~InLoop(n))
  /\ [][NoInvocationAfterRecord]_varlist

\* A run that went on after a failed first step: two records, one of each of
\* two statuses, the first after two invocations.
C25_Witness ==
  /\ Returned
  /\ Len(result.Steps) = 2
  /\ result.Steps[1].Status = "Failed"
  /\ result.Steps[2].Status = "Skipped"
  /\ Invocations(result.Steps[1].Name) = 2
  /\ Invocations(result.Steps[2].Name) = 1

\* C26: a workflow in which two step definitions share a name gets no order
\* from GetExecutionOrder, whatever the seeding order of the ready queue, but
\* an error; its run never enters executeStep, invokes no handler, and ends
\* with the overall result Error and no record.
C26_DuplicateNamesRejected ==
  ~UniqueNames(workflow) =>
    /\ \A seed \in Perms(ZeroDegree(workflow)) :
         LET r == GetExecutionOrder(workflow, seed)
         IN r.err.kind # "none" /\ r.order = <<>>
    /\ pc \in {"start", "done"}
    /\ \A n \in StepNames(workflow) : Invocations(n) = 0
    /\ Returned => (result.Result = "Error" /\ result.Steps = <<>>
                    /\ result.ErrorMessage.kind # "none")

\* The run of a workflow with two steps of one name, whose handler is
\* registered, has ended with the dependency-cycle error.
C26_Witness ==
  /\ Returned
  /\ Len(workflow.Steps) = 2
  /\ workflow.Steps[1].Name = workflow.Steps[2].Name
  /\ Registered(workflow.Steps[1].Name)
  /\ result.Result = "Error"
  /\ result.ErrorMessage = CycleError

\* ======================================================================
\* Termination (checked under SpecFair)

\* The steps the resolver's loop appends when the ready queue is seeded in
\* the order `seed`, one per name it takes off the queue.
Dequeued(seed) == Kahn(workflow, seed, InDegree(workflow), <<>>)

\* The overall results of a Run that has returned.
OverallResults == {"Succeeded", "Failed", "Error"}

\* Run terminates when it starts from a workdir without vars.yaml: whatever
\* the seeding order, the resolver's loop takes no step name off its queue
\* twice; no handler is invoked more often than retries(step)+1 times; every
\* run returns, and the result it returns is Succeeded, Failed or Error.
BoundedLoops ==
  /\ \A seed \in Perms(ZeroDegree(workflow)) :
       \A i, j \in DOMAIN Dequeued(seed) :
         Dequeued(seed)[i].Name = Dequeued(seed)[j].Name => i = j
  /\ \A n \in StepNames(workflow) :
       Invocations(n) <= GetRetries(workflow, StepNamed(n)) + 1

RunTerminates ==
  /\ []BoundedLoops
  /\ [](Returned => result.Result \in OverallResults)
  /\ <>Returned

\* ======================================================================
\* The finalize rule in runs of three steps (checked under SpecFinalize)

\* The step at position i of the resolved order is not tagged finalize and
\* its record says Failed.
FailedNonFinalize(i) ==
  /\ i \in DOMAIN result.Steps
  /\ result.Steps[i].Status = "Failed"
  /\ steps[i].Template # TemplateFinalize

\* C27: in a workflow with a finalize-tagged step, wherever that step is in
\* the resolved order, Run does not return after a Failed step that is not
\* tagged finalize while a step of the order is still to be executed: when
\* the run has returned, every later step has its record, and the handler of
\* every later step that has one registered was invoked, whatever the step's
\* tag and whether or not it declares the failed step as a dependency.
C27_FinalizeKeepsRunGoing ==
  (HasFinalize(steps) /\ Returned) =>
    \A i \in DOMAIN steps :
      FailedNonFinalize(i) =>
        \A j \in (i + 1)..Len(steps) :
          /\ j \in DOMAIN result.Steps
          /\ Registered(steps[j].Name) => Invocations(steps[j].Name) >= 1

\* The finalize-tagged step ran first; the second step failed; the third, an
\* action step that declares the second as its dependency, was invoked.
C27_Witness ==
  /\ Returned
  /\ Len(steps) = 3
  /\ steps[1].Template = TemplateFinalize
  /\ FailedNonFinalize(2)
  /\ steps[3].Template = TemplateAction
  /\ steps[3].Depends = <<steps[2].Name>>
  /\ Len(result.Steps) = 3
  /\ Invocations(steps[3].Name) = 1

\* ======================================================================
\* Runs from a missing or broken vars.yaml (checked under SpecSnapshot)

\* The run died of a runtime panic.
Panicked == pc = "panic"

\* C24: a missing or corrupt vars.yaml is never fatal: the runner starts
\* from the empty context, the run never aborts, and the context holds an
\* entry under every key that a recorded step's final outcome updated.
C24_AsStated ==
  snapshot \in BrokenSnapshots =>
    /\ vars0 = EmptyMap
    /\ ~Panicked
    /\ \A i \in DOMAIN result.Steps :
         \A k \in result.Steps[i].Updates : k \in DOMAIN vars

\* C28: Run terminates: the resolver's loop takes no step name off its
\* queue twice, no handler is invoked more often than retries(step)+1 times,
\* and the run does not end unless Run returns a result, which is Succeeded,
\* Failed or Error.
C28_AsStated ==
  /\ BoundedLoops
  /\ Returned => result.Result \in OverallResults
  /\ pc \in {"start", "step", "attempt", "done"}

\* ======================================================================
\* The attempt budget over all retry counts (checked under SpecBudget)
\* ======================================================================
\* retries(step) as the claim words it, from the override o and the default d.
ClaimedRetries(o, d) ==
  CASE o > 0 -> o
    [] o <= 0 /\ d > 0 -> d
    [] o <= 0 /\ d <= 0 -> 0

\* C14: for every integer override and default, zero and negative included,
\* a step gets retries(step)+1 attempts and so at least one: its handler is
\* never invoked more often, and is invoked exactly that often when every
\* attempt reports an error and none asks to skip.
C14_AttemptBudget ==
  \A i \in DOMAIN workflow.Steps :
    LET step == workflow.Steps[i]
        budget == ClaimedRetries(step.Retries, workflow.DefaultRetries) + 1
        h == history[step.Name]
    IN /\ budget >= 1
       /\ MaxAttempts(workflow, step) = budget
       /\ Len(h) <= budget
       /\ InLoop(step.Name) => (attempt <= budget /\ Len(h) = attempt - 1)
       /\ (HasRecord(step.Name) /\ Registered(step.Name)
           /\ \A j \in DOMAIN h : ErrNoSkip(step.Name, j))
          => (Len(h) = budget /\ RecordOf(step.Name).Status = "Failed")

\* A step with a negative override and a default of one retry failed after
\* two erroneous attempts.
C14_Witness ==
  /\ pc = "done"
  /\ workflow.Steps[1].Retries < 0
  /\ workflow.DefaultRetries = 1
  /\ history["a"] = <<[err |-> TRUE, skip |-> FALSE], [err |-> TRUE, skip |-> FALSE]>>
  /\ RecordOf("a").Status = "Failed"

\* ======================================================================
\* Properties of the parameters of a step (checked under SpecParams)
\* ======================================================================
\* C20: the parameters in a step's input are the run-level parameters
\* overlaid by the step's own: every key of either is there, a key of both
\* carries the step's value, a key of the run level alone the run-level value;
\* no parameter value of another step is among them; and no step of a run
\* changes the run-level parameters.
C20_EffectiveParams ==
  /\ [](input # NoInput
        => LET own == InputStep.Params
               eff == input.Params
           IN /\ DOMAIN eff = DOMAIN params \cup DOMAIN own
              /\ \A k \in DOMAIN own : eff[k] = own[k]
              /\ \A k \in DOMAIN params \ DOMAIN own : eff[k] = params[k]
              /\ \A i \in DOMAIN workflow.Steps :
                   workflow.Steps[i].Name # input.StepName
                   => \A k \in DOMAIN eff :
                        eff[k] # StepValue(workflow.Steps[i].Name, k))
  /\ [](\A k \in DOMAIN params : params[k] = RunValue(k))
  /\ [][params' = params]_varlist

\* The second step is given p1 from the run level and its own p2, after the
\* first step was given its own values for both keys.
C20_Witness ==
  /\ Len(steps) = 2
  /\ input.StepName = steps[2].Name
  /\ DOMAIN steps[1].Params = ParamKeys
  /\ Invocations(steps[1].Name) >= 1
  /\ DOMAIN steps[2].Params = {"p2"}
  /\ params = [k \in ParamKeys |-> RunValue(k)]
  /\ input.Params = [k \in ParamKeys |->
                       IF k = "p1" THEN RunValue(k) ELSE StepValue(steps[2].Name, k)]

\* ======================================================================
\* Properties of the registry (checked under SpecRegistry)
\* ======================================================================
\* The goroutine is between its lock and its deferred unlock.
InSection(p) == calls[p].at \in {"body", "unlock"}

\* The Register calls of the name n that have run their body.
Registrants(n) ==
  {p \in Procs : /\ calls[p].op = "Register"
                 /\ calls[p].name = n
                 /\ calls[p].at \in {"unlock", "returned", "panicked"}}

\* The name was bound by an init() function before any goroutine called.
BoundAtStart(n) == n \in DOMAIN registry /\ registry[n] = Bound({n})[n]

\* C18: Register panics when the name is bound and then changes no binding;
\* at any time the registry holds, under each name, the handler of the one
\* Register call of that name that did not panic (the first to run), every
\* other Register of the name has panicked, and from one state to the next no
\* binding is removed or replaced.
C18_FirstBindingStays ==
  /\ [](\A n \in RegNames :
          /\ n \in DOMAIN registry <=> (BoundAtStart(n) \/ Registrants(n) # {})
          /\ BoundAtStart(n) => \A p \in Registrants(n) : calls[p].panicking
          /\ (~BoundAtStart(n) /\ Registrants(n) # {})
             => \E p \in Registrants(n) :
                  /\ ~calls[p].panicking
                  /\ registry[n] = HandlerOf(p)
                  /\ \A q \in Registrants(n) \ {p} : calls[q].panicking)
  /\ [](\A p \in Procs : calls[p].at = "panicked" <=> (calls[p].panicking /\ ~InSection(p)))
  /\ [][/\ \A n \in DOMAIN registry :
             n \in DOMAIN registry' /\ registry'[n] = registry[n]
        /\ \A p \in Procs :
             (/\ calls[p].op = "Register"
              /\ calls[p].at = "body"
              /\ calls'[p].at = "unlock"
              /\ calls[p].name \in DOMAIN registry)
             => (calls'[p].panicking /\ registry' = registry)]_varlist

\* The name of step a was bound at the start and a Register of it panicked;
\* of two Registers of the name of step b one returned and the other
\* panicked; the registry holds the first handler under each name.
C18_Witness ==
  /\ calls["p1"] = [NoCall EXCEPT !.op = "Register", !.name = <<"plat", "a">>,
                                  !.at = "panicked", !.panicking = TRUE]
  /\ calls["p2"].op = "Register" /\ calls["p2"].name = <<"plat", "b">>
  /\ calls["p2"].at = "panicked"
  /\ calls["p3"].op = "Register" /\ calls["p3"].name = <<"plat", "b">>
  /\ calls["p3"].at = "returned"
  /\ registry = [n \in RegNames |-> IF n = <<"plat", "a">> THEN n ELSE HandlerOf("p3")]

\* C19: a goroutine inside Register's section is alone inside the registry:
\* no other Register, Get, ListHandlers or HandlerCount is inside its own;
\* the lock is held exactly by the goroutines inside a section, so it is free
\* after a return and after a panic and a waiting call can enter; the two
\* Register calls made for a name that was not bound, once finished, left
\* one binding, one of them returned and the other panicked.
C19_MutualExclusion ==
  /\ \A p \in Procs :
       (InSection(p) /\ calls[p].op = "Register")
       => \A q \in Procs \ {p} : ~InSection(q)
  /\ \A p \in Procs :
       /\ registryLock.writer = p <=> (InSection(p) /\ calls[p].op = "Register")
       /\ p \in registryLock.readers <=> (InSection(p) /\ calls[p].op # "Register")
  /\ registryLock.writer \in Procs \cup {None}
  /\ (\A p \in Procs : ~InSection(p))
     => /\ registryLock = Unlocked
        /\ CanLock(registryLock) /\ CanRLock(registryLock)
  /\ \A p \in Procs : \A q \in Procs \ {p} :
       (/\ calls[p].op = "Register" /\ calls[q].op = "Register"
        /\ calls[p].name = calls[q].name
        /\ \A r \in Procs \ {p, q} :
             ~(calls[r].op = "Register" /\ calls[r].name = calls[p].name)
        /\ ~BoundAtStart(calls[p].name)
        /\ calls[p].at \in {"returned", "panicked"}
        /\ calls[q].at \in {"returned", "panicked"})
       => /\ calls[p].at # calls[q].at
          /\ calls[p].name \in DOMAIN registry
          /\ registry[calls[p].name]
               = HandlerOf(IF calls[p].at = "returned" THEN p ELSE q)

\* Two Register calls of one unbound name raced: one has returned, the other
\* has panicked, and a Get that waited for the lock is now inside its
\* section, the only holder of the lock.
C19_Witness ==
  /\ calls["p1"].op = "Register" /\ calls["p1"].at = "panicked"
  /\ calls["p2"].op = "Register" /\ calls["p2"].at = "returned"
  /\ calls["p1"].name = calls["p2"].name
  /\ registry = [n \in {calls["p1"].name} |-> HandlerOf("p2")]
  /\ calls["p3"].op = "Get" /\ calls["p3"].name = calls["p1"].name
  /\ calls["p3"].at = "unlock"
  /\ calls["p3"].ret.ok /\ calls["p3"].ret.handler = HandlerOf("p2")
  /\ registryLock = [writer |-> None, readers |-> {"p3"}]

\* ======================================================================
\* Properties of a run with handlers that write to their input (SpecLive)
\* ======================================================================
\* The value was stored by a handler's assignment in input.Vars.
IsDirect(v) == v[1] = "direct"

\* C11: a handler's input holds a value snapshot of the context: a value a
\* handler assigned in input.Vars never shows in the Runner's context nor in
\* the input of a later attempt or step, and an input that was handed to a
\* step's handler never shows an update merged from that step afterwards.
C11_AsStated ==
  /\ \A k \in DOMAIN vars : ~IsDirect(vars[k])
  /\ pc = "attempt" => \A k \in DOMAIN input.Vars : ~IsDirect(input.Vars[k])
  /\ input # NoInput
     => \A k \in DOMAIN input.Vars :
          \A a \in 1..(MaxRetries + 1) :
            input.Vars[k] # Stamp(input.StepName, a)

====
